---- MODULE Spec2Model ----
(***************************************************************************)
(* Model of src/main.py, the medical RSS feed processor: one run of main() *)
(* authenticates with the record store, takes a snapshot of the urls of    *)
(* the most recent records, fetches the feed, filters it against the       *)
(* snapshot and drives every new item through process_item.                *)
(*                                                                         *)
(* Strings are sequences of one-character strings, so that str.lower() and *)
(* the substring test of process_item are computed, not assumed.           *)
(* Every await of main()/process_item() is one action; the outcome of the  *)
(* external call it makes is chosen nondeterministically.                  *)
(***************************************************************************)
EXTENDS Integers, Sequences, FiniteSets, TLC

VARIABLES pc, runs, clientOpen, token, store, feed, existing_urls, items,
          new_items, idx, markdown, summary, calls, startLen, prev, env,
          missing_vars

vars == <<pc, runs, clientOpen, token, store, feed, existing_urls, items,
          new_items, idx, markdown, summary, calls, startLen, prev, env, missing_vars>>

(* ------------------------------ bounds -------------------------------- *)

\* number of executions of main() in one behaviour
MaxRuns == 2

\* longest feed the feed source returns
MaxFeed == 2

\* page size of the snapshot query; the code asks for 50 (main.py:78),
\* scaled down here so that a store can outgrow the window
PerPage == 1

(* ------------------------------ strings ------------------------------- *)

UpperCase == <<"A","B","C","D","E","F","G","H","I","J","K","L","M",
               "N","O","P","Q","R","S","T","U","V","W","X","Y","Z">>

LowerCase == <<"a","b","c","d","e","f","g","h","i","j","k","l","m",
               "n","o","p","q","r","s","t","u","v","w","x","y","z">>

\* Python's None: a value different from every str
None == <<"None">>

\* the literal of main.py:186
EXCLUSION_MARKER == <<"e","v","i","d","e","n","c","e","-","u","p","d","a","t","e","s">>

\* str.lower() on one character
LowerChar(c) ==
  IF \E k \in 1..26 : UpperCase[k] = c
  THEN LowerCase[CHOOSE k \in 1..26 : UpperCase[k] = c]
  ELSE c

\* str.lower()
Lower(s) == [k \in 1..Len(s) |-> LowerChar(s[k])]

\* Python's `sub in s` for two strings
Contains(sub, s) ==
  \E k \in 0..(Len(s) - Len(sub)) : SubSeq(s, k + 1, k + Len(sub)) = sub

\* truth value of an optional str: None and "" are falsy
Truthy(x) == x # None /\ x # <<>>

(* --------------------------- feed contents ---------------------------- *)

\* a link carrying the marker in mixed case
LinkExcluded == <<"/","E","v","i","d","e","n","c","e","-","U","P","D","A","T","E","S">>

\* a link that misses the marker by its last letter
LinkNear == <<"/","e","v","i","d","e","n","c","e","-","u","p","d","a","t","e">>

\* an ordinary article link
LinkPlain == <<"/","t","r","i","a","l">>

Links == {LinkExcluded, LinkNear, LinkPlain}

\* the entries the feed source can list: {link, title, pubDate}
Items ==
  { [link |-> LinkExcluded, title |-> "t1", pubDate |-> "d1"],
    [link |-> LinkNear,     title |-> "t2", pubDate |-> "d2"],
    [link |-> LinkPlain,    title |-> "t3", pubDate |-> "d3"] }

Feeds == UNION { [1..n -> Items] : n \in 0..MaxFeed }

\* the body the extraction service renders for a page
Page(url) == <<"#">> \o url

\* the completion the model writes for an article text
Completion(md) == <<"*">> \o md

(* ------------------------- pure computations -------------------------- *)

\* the exclusion test without .lower()
IsExcluded_CaseSensitive(link) == Contains(EXCLUSION_MARKER, link)

\* process_item's exclusion test
IsExcluded(link) == Contains(EXCLUSION_MARKER, Lower(link))

\* the filter as a set difference: a link listed twice is kept once
RECURSIVE FilterNew_SetDifference(_, _)
FilterNew_SetDifference(its, existing) ==
  IF its = <<>> THEN <<>>
  ELSE IF Head(its).link \notin existing
       THEN <<Head(its)>> \o
            FilterNew_SetDifference(Tail(its), existing \cup {Head(its).link})
       ELSE FilterNew_SetDifference(Tail(its), existing)

\* the filter left out: every feed entry is processed
FilterNew_All(its, existing) == its

\* the list comprehension of main(): items whose link is not in the snapshot
RECURSIVE FilterNew(_, _)
FilterNew(its, existing) ==
  IF its = <<>> THEN <<>>
  ELSE IF Head(its).link \notin existing
       THEN <<Head(its)>> \o FilterNew(Tail(its), existing)
       ELSE FilterNew(Tail(its), existing)

\* the json body without the markdown
Data_WithoutMarkdown(item, s, m) ==
  LET base == [url |-> item.link, feed_url |-> item.link,
               published_at |-> item.pubDate]
  IN  IF Truthy(s) THEN base @@ [summary |-> s] ELSE base

\* the json body create_rss_record posts
Data(item, s, m) ==
  LET base  == [url |-> item.link, feed_url |-> item.link,
                published_at |-> item.pubDate]
      withS == IF Truthy(s) THEN base @@ [summary |-> s] ELSE base
  IN  IF Truthy(m) THEN withS @@ [markdown |-> m] ELSE withS

\* the snapshot one record short of the page size
SnapshotUrls_OffByOne(st) ==
  { st[k].url : k \in { j \in 1..Len(st) : j > Len(st) - PerPage + 1 } }

\* the record store's answer to sort=-created, perPage=PerPage: the urls of
\* its most recent records
SnapshotUrls(st) ==
  { st[k].url : k \in { j \in 1..Len(st) : j > Len(st) - PerPage } }

\* the try/except left out: an item's exception leaves main()
ExceptPc_Propagates == "aborted"

\* where main()'s `except Exception` resumes: the for statement
ExceptPc == "loop"

\* where an exception outside the for loop leaves the run
AbortPc == "aborted"

\* one entry of the run's log of awaited calls
Call(op, ok, i, link) == [op |-> op, ok |-> ok, idx |-> i, link |-> link]

(* --------------------------- configuration ---------------------------- *)

\* the names of required_vars, in the order of the dict
REQUIRED_VARS ==
  <<"POCKETBASE_URL", "PB_EMAIL", "PB_PASSWORD", "OPENAI_API_KEY",
    "READER_API_URL", "READER_BEARER_TOKEN", "PUSHBULLET_TOKEN">>

RequiredNames == { REQUIRED_VARS[k] : k \in DOMAIN REQUIRED_VARS }

\* what os.getenv answers for a name: None when it is unset, else its
\* value, which may be the empty string
EnvValues == {None, <<>>, <<"x">>}

\* an environment with every required variable set
EnvComplete == [n \in RequiredNames |-> <<"x">>]

\* the diagnostic naming only the first missing variable
MissingVars_FirstOnly(e) ==
  LET all == SelectSeq(REQUIRED_VARS, LAMBDA n : ~Truthy(e[n]))
  IN  IF all = <<>> THEN <<>> ELSE <<Head(all)>>

\* missing_vars = [name for name, value in required_vars.items() if not value]
MissingVars(e) == SelectSeq(REQUIRED_VARS, LAMBDA n : ~Truthy(e[n]))

(* ------------------------------ states -------------------------------- *)

Init ==
  /\ pc = "start"
  /\ runs = 0
  /\ clientOpen = FALSE
  /\ token = None
  /\ store = <<>>
  /\ feed \in Feeds
  /\ existing_urls = {}
  /\ items = <<>>
  /\ new_items = <<>>
  /\ idx = 0
  /\ markdown = None
  /\ summary = None
  /\ calls = <<>>
  /\ startLen = 0
  /\ prev = [ran |-> FALSE, feed |-> <<>>, outcome |-> "none",
             allRecorded |-> FALSE, storeLen |-> 0, created |-> 0,
             createFailed |-> {}]
  /\ env = EnvComplete
  /\ missing_vars = <<>>

\* the feeds the source may list at the next run: the same feed, or the feed
\* with one more entry published at its front (the oldest one dropped when
\* the feed is full)
Published(f) ==
  {f} \cup { SubSeq(<<it>> \o f, 1, IF Len(f) < MaxFeed THEN Len(f) + 1 ELSE MaxFeed) :
             it \in Items }

\* every entry of the filtered sequence has a record the store applied
AllRecorded ==
  \A k \in 1..Len(new_items) :
    \E p \in 1..Len(calls) :
      calls[p].op = "create" /\ calls[p].idx = k /\ calls[p].stored

\* the links of the entries whose create_rss_record raised in this run
CreateFailed ==
  { calls[p].link :
      p \in { q \in 1..Len(calls) : calls[q].op = "create" /\ ~calls[q].ok } }

\* asyncio.run(main()) begins: the client is opened; the feed source may
\* have published a different feed since the previous run
StartRun ==
  /\ pc \in {"start", "done", "aborted"}
  /\ runs < MaxRuns
  /\ runs' = runs + 1
  /\ pc' = "auth"
  /\ clientOpen' = TRUE
  /\ token' = None
  /\ feed' \in (IF runs = 0 THEN {feed} ELSE Published(feed))
  /\ prev' = IF runs = 0 THEN prev
             ELSE [ran |-> TRUE, feed |-> feed, outcome |-> pc,
                   allRecorded |-> (pc = "done" /\ AllRecorded),
                   storeLen |-> Len(store),
                   created |-> Len(store) - startLen,
                   createFailed |-> CreateFailed]
  /\ existing_urls' = {}
  /\ items' = <<>>
  /\ new_items' = <<>>
  /\ idx' = 0
  /\ markdown' = None
  /\ summary' = None
  /\ calls' = <<>>
  /\ startLen' = Len(store)
  /\ UNCHANGED <<store, env, missing_vars>>

\* token = await get_pb_auth_token(client)
GetPbAuthToken ==
  /\ pc = "auth"
  /\ \E ok \in BOOLEAN :
       /\ calls' = Append(calls, Call("auth", ok, 0, None))
       /\ IF ok
          THEN /\ token' = <<"t","o","k">>
               /\ pc' = "fetch_existing"
               /\ UNCHANGED clientOpen
          ELSE /\ pc' = AbortPc
               /\ clientOpen' = FALSE
               /\ UNCHANGED token
  /\ UNCHANGED <<runs, store, feed, existing_urls, items, new_items, idx,
                 markdown, summary, startLen, prev, env, missing_vars>>

\* fetch_existing_urls swallowing its failure and answering the empty set
FetchExistingUrls_Swallowed ==
  /\ pc = "fetch_existing"
  /\ \E ok \in BOOLEAN :
       /\ calls' = Append(calls, Call("fetch_existing", ok, 0, None))
       /\ existing_urls' = IF ok THEN SnapshotUrls(store) ELSE {}
       /\ pc' = "fetch_rss"
       /\ UNCHANGED clientOpen
  /\ UNCHANGED <<runs, token, store, feed, items, new_items, idx,
                 markdown, summary, startLen, prev, env, missing_vars>>

\* existing_urls = await fetch_existing_urls(client, token)
FetchExistingUrls ==
  /\ pc = "fetch_existing"
  /\ \E ok \in BOOLEAN :
       /\ calls' = Append(calls, Call("fetch_existing", ok, 0, None))
       /\ IF ok
          THEN /\ existing_urls' = SnapshotUrls(store)
               /\ pc' = "fetch_rss"
               /\ UNCHANGED clientOpen
          ELSE /\ pc' = AbortPc
               /\ clientOpen' = FALSE
               /\ UNCHANGED existing_urls
  /\ UNCHANGED <<runs, token, store, feed, items, new_items, idx,
                 markdown, summary, startLen, prev, env, missing_vars>>

\* a client closed only at the end of main(): an exception leaves it open
FetchRss_Leak ==
  /\ pc = "fetch_rss"
  /\ \E ok \in BOOLEAN :
       /\ calls' = Append(calls, Call("fetch_rss", ok, 0, None))
       /\ items' = IF ok THEN feed ELSE items
       /\ pc' = IF ok THEN "filter" ELSE AbortPc
       /\ UNCHANGED clientOpen
  /\ UNCHANGED <<runs, token, store, feed, existing_urls, new_items, idx,
                 markdown, summary, startLen, prev, env, missing_vars>>

\* items = await fetch_rss(...)
FetchRss ==
  /\ pc = "fetch_rss"
  /\ \E ok \in BOOLEAN :
       /\ calls' = Append(calls, Call("fetch_rss", ok, 0, None))
       /\ IF ok
          THEN /\ items' = feed
               /\ pc' = "filter"
               /\ UNCHANGED clientOpen
          ELSE /\ pc' = AbortPc
               /\ clientOpen' = FALSE
               /\ UNCHANGED items
  /\ UNCHANGED <<runs, token, store, feed, existing_urls, new_items, idx,
                 markdown, summary, startLen, prev, env, missing_vars>>

\* new_items = [item for item in items if item["link"] not in existing_urls]
Filter ==
  /\ pc = "filter"
  /\ new_items' = FilterNew(items, existing_urls)
  /\ pc' = "loop"
  /\ UNCHANGED <<runs, clientOpen, token, store, feed, existing_urls, items,
                 idx, markdown, summary, calls, startLen, prev, env, missing_vars>>

\* the snapshot fetched again before every entry
ForNextItem_Refreshed ==
  /\ pc = "loop"
  /\ idx < Len(new_items)
  /\ idx' = idx + 1
  /\ markdown' = None
  /\ summary' = None
  /\ existing_urls' = SnapshotUrls(store)
  /\ pc' = IF new_items[idx + 1].link \in SnapshotUrls(store) THEN "loop"
           ELSE IF IsExcluded(new_items[idx + 1].link) THEN "create_minimal"
           ELSE "scrape"
  /\ UNCHANGED <<runs, clientOpen, token, store, feed, items,
                 new_items, calls, startLen, prev, env, missing_vars>>

\* the for loop stopping one entry short
ForNextItem_OffByOne ==
  /\ pc = "loop"
  /\ idx < Len(new_items) - 1
  /\ idx' = idx + 1
  /\ markdown' = None
  /\ summary' = None
  /\ pc' = IF IsExcluded(new_items[idx + 1].link) THEN "create_minimal"
           ELSE "scrape"
  /\ UNCHANGED <<runs, clientOpen, token, store, feed, existing_urls, items,
                 new_items, calls, startLen, prev, env, missing_vars>>

\* `for item in new_items` yields the next item and process_item runs up to
\* its first await
ForNextItem ==
  /\ pc = "loop"
  /\ idx < Len(new_items)
  /\ idx' = idx + 1
  /\ markdown' = None
  /\ summary' = None
  /\ pc' = IF IsExcluded(new_items[idx + 1].link) THEN "create_minimal"
           ELSE "scrape"
  /\ UNCHANGED <<runs, clientOpen, token, store, feed, existing_urls, items,
                 new_items, calls, startLen, prev, env, missing_vars>>

\* the for loop is exhausted: "Processing complete", the client is closed
ForExhausted ==
  /\ pc = "loop"
  /\ idx = Len(new_items)
  /\ pc' = "done"
  /\ clientOpen' = FALSE
  /\ UNCHANGED <<runs, token, store, feed, existing_urls, items, new_items,
                 idx, markdown, summary, calls, startLen, prev, env, missing_vars>>

\* the outcomes of create_rss_record: "ok"; "rejected" (the post fails, no
\* record); "lost" (the store applied the post, the response does not reach
\* or does not parse in the caller, which raises)
CreateOutcomes == {"ok", "rejected", "lost"}

\* create_rss_record without raise_for_status: a rejected post returns
CreateRssRecord_NoRaise(s, m, okPc) ==
  \E o \in CreateOutcomes :
    LET data == Data(new_items[idx], s, m) IN
    /\ calls' = Append(calls,
                  Call("create", o = "ok", idx, new_items[idx].link)
                    @@ [data |-> data, stored |-> (o # "rejected")])
    /\ store' = IF o = "rejected" THEN store ELSE Append(store, data)
    /\ pc' = IF o = "lost" THEN ExceptPc ELSE okPc

\* a creation that replaces the record the store holds for the same url
CreateRssRecord_Upsert(s, m, okPc) ==
  \E o \in CreateOutcomes :
    LET data == Data(new_items[idx], s, m)
        kept == SelectSeq(store, LAMBDA r : r.url # data.url)
    IN
    /\ calls' = Append(calls,
                  Call("create", o = "ok", idx, new_items[idx].link)
                    @@ [data |-> data, stored |-> (o # "rejected")])
    /\ store' = IF o = "rejected" THEN store ELSE Append(kept, data)
    /\ pc' = IF o = "ok" THEN okPc ELSE ExceptPc

\* await create_rss_record(client, item, token, summary, markdown),
\* continuing at okPc when it returns
CreateRssRecord(s, m, okPc) ==
  \E o \in CreateOutcomes :
    LET data == Data(new_items[idx], s, m) IN
    /\ calls' = Append(calls,
                  Call("create", o = "ok", idx, new_items[idx].link)
                    @@ [data |-> data, stored |-> (o # "rejected")])
    /\ store' = IF o = "rejected" THEN store ELSE Append(store, data)
    /\ pc' = IF o = "ok" THEN okPc ELSE ExceptPc

\* process_item, excluded branch: await create_rss_record(client, item, token)
CreateMinimal ==
  /\ pc = "create_minimal"
  /\ CreateRssRecord(None, None, "sleep")
  /\ UNCHANGED <<runs, clientOpen, token, feed, existing_urls, items,
                 new_items, idx, markdown, summary, startLen, prev, env, missing_vars>>

\* scrape_markdown swallowing its failure and answering the empty text
ScrapeMarkdown_Swallowed ==
  /\ pc = "scrape"
  /\ \E ok \in BOOLEAN, text \in {<<>>, Page(new_items[idx].link)} :
       /\ ~ok => text = <<>>
       /\ calls' = Append(calls,
                     Call("scrape", ok, idx, new_items[idx].link)
                       @@ [ret |-> IF ok THEN text ELSE None])
       /\ markdown' = text
       /\ pc' = "summarize"
  /\ UNCHANGED <<runs, clientOpen, token, store, feed, existing_urls, items,
                 new_items, idx, summary, startLen, prev, env, missing_vars>>

\* scrape_markdown tried again after a failure
ScrapeMarkdown_Retried ==
  /\ pc = "scrape"
  /\ \E ok \in BOOLEAN, text \in {<<>>, Page(new_items[idx].link)} :
       /\ ~ok => text = <<>>
       /\ calls' = Append(calls,
                     Call("scrape", ok, idx, new_items[idx].link)
                       @@ [ret |-> IF ok THEN text ELSE None])
       /\ markdown' = IF ok THEN text ELSE markdown
       /\ pc' = IF ok THEN "summarize"
                ELSE IF \E p \in 1..Len(calls) : calls[p].idx = idx
                     THEN ExceptPc ELSE "scrape"
  /\ UNCHANGED <<runs, clientOpen, token, store, feed, existing_urls, items,
                 new_items, idx, summary, startLen, prev, env, missing_vars>>

\* markdown = await scrape_markdown(client, item["link"])
ScrapeMarkdown ==
  /\ pc = "scrape"
  /\ \E ok \in BOOLEAN, text \in {<<>>, Page(new_items[idx].link)} :
       /\ ~ok => text = <<>>
       /\ calls' = Append(calls,
                     Call("scrape", ok, idx, new_items[idx].link)
                       @@ [ret |-> IF ok THEN text ELSE None])
       /\ markdown' = IF ok THEN text ELSE markdown
       /\ pc' = IF ok THEN "summarize" ELSE ExceptPc
  /\ UNCHANGED <<runs, clientOpen, token, store, feed, existing_urls, items,
                 new_items, idx, summary, startLen, prev, env, missing_vars>>

\* summary = await generate_summary(markdown); a completion whose content
\* is None raises ValueError like any failure of the API call
GenerateSummary ==
  /\ pc = "summarize"
  /\ \E ok \in BOOLEAN, content \in {<<>>, Completion(markdown)} :
       /\ ~ok => content = <<>>
       /\ calls' = Append(calls,
                     Call("summarize", ok, idx, new_items[idx].link)
                       @@ [arg |-> markdown,
                           ret |-> IF ok THEN content ELSE None])
       /\ summary' = IF ok THEN content ELSE summary
       /\ pc' = IF ok THEN "create_full" ELSE ExceptPc
  /\ UNCHANGED <<runs, clientOpen, token, store, feed, existing_urls, items,
                 new_items, idx, markdown, startLen, prev, env, missing_vars>>

\* await create_rss_record(client, item, token, summary=summary,
\* markdown=markdown)
CreateFull ==
  /\ pc = "create_full"
  /\ CreateRssRecord(summary, markdown, "notify")
  /\ UNCHANGED <<runs, clientOpen, token, feed, existing_urls, items,
                 new_items, idx, markdown, summary, startLen, prev, env, missing_vars>>

\* the notification carrying the article text instead of the summary
SendPushbullet_BodyMarkdown ==
  /\ pc = "notify"
  /\ \E ok \in BOOLEAN :
       /\ calls' = Append(calls,
                     Call("push", ok, idx, new_items[idx].link)
                       @@ [body |-> markdown])
       /\ pc' = IF ok THEN "sleep" ELSE ExceptPc
       /\ store' = store
  /\ UNCHANGED <<runs, clientOpen, token, feed, existing_urls, items,
                 new_items, idx, markdown, summary, startLen, prev, env,
                 missing_vars>>

\* a failed notification undoing the record just created
SendPushbullet_Rollback ==
  /\ pc = "notify"
  /\ \E ok \in BOOLEAN :
       /\ calls' = Append(calls,
                     Call("push", ok, idx, new_items[idx].link)
                       @@ [body |-> summary])
       /\ pc' = IF ok THEN "sleep" ELSE ExceptPc
       /\ store' = IF ok THEN store ELSE SubSeq(store, 1, Len(store) - 1)
  /\ UNCHANGED <<runs, clientOpen, token, feed, existing_urls, items,
                 new_items, idx, markdown, summary, startLen, prev, env, missing_vars>>

\* await send_pushbullet(client, "New Summary", summary)
SendPushbullet ==
  /\ pc = "notify"
  /\ \E ok \in BOOLEAN :
       /\ calls' = Append(calls,
                     Call("push", ok, idx, new_items[idx].link)
                       @@ [body |-> summary])
       /\ pc' = IF ok THEN "sleep" ELSE ExceptPc
       /\ store' = store
  /\ UNCHANGED <<runs, clientOpen, token, feed, existing_urls, items,
                 new_items, idx, markdown, summary, startLen, prev, env, missing_vars>>

\* await asyncio.sleep(1)
Sleep ==
  /\ pc = "sleep"
  /\ calls' = Append(calls, Call("sleep", TRUE, idx, new_items[idx].link))
  /\ pc' = "loop"
  /\ UNCHANGED <<runs, clientOpen, token, store, feed, existing_urls, items,
                 new_items, idx, markdown, summary, startLen, prev, env, missing_vars>>

Next ==
  \/ StartRun
  \/ GetPbAuthToken
  \/ FetchExistingUrls
  \/ FetchRss
  \/ Filter
  \/ ForNextItem
  \/ ForExhausted
  \/ CreateMinimal
  \/ ScrapeMarkdown
  \/ GenerateSummary
  \/ CreateFull
  \/ SendPushbullet
  \/ Sleep

Spec == Init /\ [][Next]_vars

\* the module is imported with any environment
InitEnv ==
  /\ pc = "import"
  /\ runs = 0
  /\ clientOpen = FALSE
  /\ token = None
  /\ store = <<>>
  /\ feed \in Feeds
  /\ existing_urls = {}
  /\ items = <<>>
  /\ new_items = <<>>
  /\ idx = 0
  /\ markdown = None
  /\ summary = None
  /\ calls = <<>>
  /\ startLen = 0
  /\ prev = [ran |-> FALSE, feed |-> <<>>, outcome |-> "none",
             allRecorded |-> FALSE, storeLen |-> 0, created |-> 0,
             createFailed |-> {}]
  /\ env \in [RequiredNames -> EnvValues]
  /\ missing_vars = <<>>

\* validate_env_vars(), called while the module is imported: it raises
\* ValueError, which ends the process, when a required variable is falsy
ValidateEnvVars ==
  /\ pc = "import"
  /\ missing_vars' = MissingVars(env)
  /\ pc' = IF MissingVars(env) # <<>> THEN "config_error" ELSE "start"
  /\ UNCHANGED <<runs, clientOpen, token, store, feed, existing_urls, items,
                 new_items, idx, markdown, summary, calls, startLen, prev, env>>

NextEnv ==
  \/ ValidateEnvVars
  \/ StartRun
  \/ GetPbAuthToken
  \/ FetchExistingUrls
  \/ FetchRss
  \/ Filter
  \/ ForNextItem
  \/ ForExhausted
  \/ CreateMinimal
  \/ ScrapeMarkdown
  \/ GenerateSummary
  \/ CreateFull
  \/ SendPushbullet
  \/ Sleep

\* the process from its start: the import of the module, then the runs
EnvSpec == InitEnv /\ [][NextEnv]_vars

\* the steps of a run that has begun: the event loop of asyncio.run resumes
\* main() whenever the call it awaits has answered or timed out
RunStep ==
  \/ GetPbAuthToken
  \/ FetchExistingUrls
  \/ FetchRss
  \/ Filter
  \/ ForNextItem
  \/ ForExhausted
  \/ CreateMinimal
  \/ ScrapeMarkdown
  \/ GenerateSummary
  \/ CreateFull
  \/ SendPushbullet
  \/ Sleep

\* the runs under the scheduling of asyncio.run: a run that has begun is
\* driven until main() returns or raises; nothing obliges a next run to start
LiveSpec == Spec /\ WF_vars(RunStep)

TypeOK ==
  /\ pc \in {"import", "config_error", "start", "auth", "fetch_existing", "fetch_rss", "filter", "loop",
             "create_minimal", "scrape", "summarize", "create_full", "notify",
             "sleep", "done", "aborted"}
  /\ runs \in 0..MaxRuns
  /\ idx \in 0..Len(new_items)
  /\ Len(items) <= MaxFeed

(* ----------------------- vocabulary of the claims --------------------- *)

\* the same letter, whatever its case
FoldEq(c, d) ==
  c = d \/ \E n \in 1..26 : {c, d} = {UpperCase[n], LowerCase[n]}

\* the link contains the exclusion marker in some letter case
HasMarkerAnyCase(link) ==
  \E k \in 0..(Len(link) - Len(EXCLUSION_MARKER)) :
    \A j \in 1..Len(EXCLUSION_MARKER) : FoldEq(link[k + j], EXCLUSION_MARKER[j])

\* positions of the run's log
Pos == 1..Len(calls)

\* the call at position p is the call op made for entry k of the filtered
\* sequence
IsCall(p, op, k) == calls[p].op = op /\ calls[p].idx = k

\* the call at position p is a record creation the store applied
IsStored(p) == calls[p].op = "create" /\ calls[p].stored

\* the number of records the store applied up to position p of the log
StoredUpTo(p) == Cardinality({ q \in 1..p : IsStored(q) })

\* the creation at position p left its record in the store, at the place its
\* order of creation gives it
RecordInStore(p) ==
  /\ IsStored(p)
  /\ startLen + StoredUpTo(p) <= Len(store)
  /\ store[startLen + StoredUpTo(p)] = calls[p].data

\* a record for entry k of the filtered sequence was created in this run
RecordCreated(k) == \E p \in Pos : calls[p].idx = k /\ RecordInStore(p)

\* extraction, summarization succeeded for entry k
ScrapeOk(k) == \E p \in Pos : IsCall(p, "scrape", k) /\ calls[p].ok

SummarizeOk(k) == \E p \in Pos : IsCall(p, "summarize", k) /\ calls[p].ok

\* process_item has returned or raised for entry k
Finished(k) == k < idx \/ (k = idx /\ pc \in {"sleep", "loop", "done"})

\* the entries of the filtered sequence without the marker, reached so far
PlainEntries == { k \in 1..idx : ~HasMarkerAnyCase(new_items[k].link) }

\* the record has a non-empty field f
NonEmptyField(r, f) == f \in DOMAIN r /\ r[f] # <<>>

(* -------------------------------- C1 ---------------------------------- *)

\* C1, as stated: for every finished entry without the marker, a record
\* with non-empty summary and non-empty markdown has been created in the run
\* if and only if extraction and summarization both succeeded for it, and if
\* either failed no record was created for it.
C1_FullRecordIffBothSucceeded ==
  \A k \in PlainEntries :
    Finished(k) =>
      /\ (\E p \in Pos : /\ calls[p].idx = k
                         /\ RecordInStore(p)
                         /\ NonEmptyField(calls[p].data, "summary")
                         /\ NonEmptyField(calls[p].data, "markdown"))
           <=> (ScrapeOk(k) /\ SummarizeOk(k))
      /\ ~(ScrapeOk(k) /\ SummarizeOk(k)) => ~RecordCreated(k)

\* C1, amended: for every entry without the marker, the record creation
\* call is made if and only if extraction and summarization both succeeded
\* for it, in that order and before it; a record for the entry is created in
\* the run exactly when the store applied that call; the record carries a
\* summary (a markdown) field exactly when the returned summary (markdown)
\* text is non-empty; if either step failed, no record is created for it.
C1_RecordOnlyAfterBothSucceeded ==
  /\ Len(store) - startLen = StoredUpTo(Len(calls))
  /\ \A k \in PlainEntries :
    /\ \A p \in Pos :
         calls[p].idx = k /\ calls[p].op = "create" =>
           /\ \E q \in 1..(p - 1), r \in 1..(p - 1) :
                /\ q < r
                /\ IsCall(q, "scrape", k) /\ calls[q].ok
                /\ IsCall(r, "summarize", k) /\ calls[r].ok
                /\ ("markdown" \in DOMAIN calls[p].data) <=> (calls[q].ret # <<>>)
                /\ ("summary" \in DOMAIN calls[p].data) <=> (calls[r].ret # <<>>)
                /\ calls[q].ret # <<>> => calls[p].data.markdown = calls[q].ret
                /\ calls[r].ret # <<>> => calls[p].data.summary = calls[r].ret
           /\ calls[p].stored <=> RecordInStore(p)
    /\ Finished(k) =>
         ((\E p \in Pos : IsCall(p, "create", k)) <=> (ScrapeOk(k) /\ SummarizeOk(k)))
    /\ ~(ScrapeOk(k) /\ SummarizeOk(k)) /\ Finished(k) => ~RecordCreated(k)
    /\ RecordCreated(k) => ScrapeOk(k) /\ SummarizeOk(k)

\* C1, witness: a run that finished two entries without the marker, one
\* recorded with both fields after both steps succeeded, one without a
\* record because a step failed
C1_Witness ==
  /\ pc = "done"
  /\ \E k \in PlainEntries, p \in Pos :
       /\ calls[p].idx = k /\ RecordInStore(p)
       /\ NonEmptyField(calls[p].data, "summary")
       /\ NonEmptyField(calls[p].data, "markdown")
  /\ \E k \in PlainEntries :
       /\ \E p \in Pos : calls[p].idx = k /\ ~calls[p].ok
       /\ ~RecordCreated(k)

(* -------------------------------- C2 ---------------------------------- *)

\* C2: for every entry whose link contains the marker in any letter case, no
\* extraction, summarization or notification call is made, at most one
\* record creation call is made, and the record it posts and stores carries
\* exactly the mandatory fields, summary and markdown absent.
C2_ExcludedOnlyMinimalRecord ==
  \A p \in Pos :
    HasMarkerAnyCase(calls[p].link) =>
      /\ calls[p].op \in {"create", "sleep"}
      /\ calls[p].op = "create" =>
           /\ DOMAIN calls[p].data = {"url", "feed_url", "published_at"}
           /\ calls[p].data.url = calls[p].link
           /\ calls[p].stored => RecordInStore(p)
           /\ \A q \in Pos : IsCall(q, "create", calls[p].idx) => q = p

\* C2, witness: a finished run that created the minimal record of the entry
\* whose link carries the marker in mixed case
C2_Witness ==
  /\ pc = "done"
  /\ \E p \in Pos :
       /\ calls[p].link = LinkExcluded
       /\ calls[p].link # Lower(calls[p].link)
       /\ RecordInStore(p)

(* -------------------------------- C3 ---------------------------------- *)

\* the run has computed its filtered sequence
Filtered ==
  pc \in {"loop", "create_minimal", "scrape", "summarize", "create_full",
          "notify", "sleep", "done"}

\* C3: the filtered sequence is the subsequence of the feed, in feed order,
\* of exactly the entries whose link is not in the snapshot.
C3_FilteredIsOrderedSubsequence ==
  Filtered =>
    \E f \in [1..Len(new_items) -> 1..Len(items)] :
      /\ \A a, b \in 1..Len(new_items) : a < b => f[a] < f[b]
      /\ \A a \in 1..Len(new_items) : new_items[a] = items[f[a]]
      /\ { f[a] : a \in 1..Len(new_items) }
           = { j \in 1..Len(items) : items[j].link \notin existing_urls }

\* C3, witness: a feed of two entries of which the snapshot knows one
C3_Witness ==
  /\ Filtered
  /\ Len(items) = 2
  /\ Len(new_items) = 1
  /\ existing_urls # {}

\* a second witness of C3's case: two entries kept, in feed order
C3_WitnessOrder ==
  /\ Filtered
  /\ Len(new_items) = 2
  /\ new_items[1] # new_items[2]

(* -------------------------------- C4 ---------------------------------- *)

\* the calls made for the entries of the filtered sequence
ItemPos == { p \in Pos : calls[p].idx > 0 }

\* C4: a failed step of entry k is the last call made for k and is followed
\* by entry k+1; a run that has started on its entries never aborts, and at
\* completion every entry of the filtered sequence was attempted.
C4_EveryItemAttempted ==
  /\ pc = "done" =>
       \A k \in 1..Len(new_items) : \E p \in Pos : calls[p].idx = k
  /\ pc = "aborted" => idx = 0 /\ ItemPos = {}
  /\ \A p \in ItemPos :
       ~calls[p].ok =>
         IF p < Len(calls)
         THEN calls[p + 1].idx = calls[p].idx + 1
         ELSE \/ pc = "loop" /\ idx = calls[p].idx
              \/ pc \in {"scrape", "create_minimal"} /\ idx = calls[p].idx + 1
              \/ pc = "done" /\ calls[p].idx = Len(new_items)

\* C4, witness: a completed run whose first entry failed and whose second
\* entry was processed all the same
C4_Witness ==
  /\ pc = "done"
  /\ \E p \in Pos, q \in Pos :
       /\ p < q
       /\ calls[p].idx = 1 /\ ~calls[p].ok
       /\ calls[q].idx = 2

(* -------------------------------- C5 ---------------------------------- *)

\* C5: the record store holds at most one record per distinct url.
C5_OneRecordPerUrl ==
  \A i, j \in 1..Len(store) : i # j => store[i].url # store[j].url

(* -------------------------------- C6 ---------------------------------- *)

\* the number of records this run has added to the store
CreatedInRun == Len(store) - startLen

PushFails ==
  /\ Len(calls') = Len(calls) + 1
  /\ calls'[Len(calls')].op = "push"
  /\ ~calls'[Len(calls')].ok

\* the log holds, before position p, a creation for the same entry whose
\* record is in the store
RecordKeptBefore(p) ==
  \E q \in 1..(p - 1) : calls[q].idx = calls[p].idx /\ RecordInStore(q)

\* C7: a failed notification leaves the store as it was, with the record of
\* its entry in it, and hands control back to the for statement; whatever
\* the run does next, that record stays and the next call is for the next
\* entry.
C7_NotifyFailureKeepsRecord ==
  /\ [][PushFails => store' = store /\ pc' = "loop" /\ idx' = idx]_vars
  /\ [](\A p \in Pos :
          calls[p].op = "push" /\ ~calls[p].ok =>
            /\ RecordKeptBefore(p)
            /\ p < Len(calls) => calls[p + 1].idx = calls[p].idx + 1)

\* C7, witness: a completed run in which a notification failed, the record
\* of that entry is in the store and the next entry was processed
C7_Witness ==
  /\ pc = "done"
  /\ \E p \in Pos :
       /\ calls[p].op = "push" /\ ~calls[p].ok
       /\ RecordKeptBefore(p)
       /\ p < Len(calls)
       /\ calls[p + 1].idx = calls[p].idx + 1

(* -------------------------------- C8 ---------------------------------- *)

\* the calls main() makes before the for loop
PreOps == {"auth", "fetch_existing", "fetch_rss"}

\* C8: a failed authentication, snapshot fetch or feed fetch is the last
\* call of its run: the run is aborted, not completed, no call is made for
\* any entry and no record is created.
C8_PreconditionFailureAborts ==
  \A p \in Pos :
    calls[p].op \in PreOps /\ ~calls[p].ok =>
      /\ p = Len(calls)
      /\ pc = "aborted"
      /\ idx = 0
      /\ ItemPos = {}
      /\ CreatedInRun = 0

\* C8, witness: a run aborted by the snapshot fetch while the feed lists
\* entries the store does not hold
C8_Witness ==
  /\ pc = "aborted"
  /\ Len(calls) = 2
  /\ calls[2].op = "fetch_existing" /\ ~calls[2].ok
  /\ \E j \in 1..Len(feed) : \A i \in 1..Len(store) : store[i].url # feed[j].link

(* -------------------------------- C9 ---------------------------------- *)

\* C9: no call of the run is made for a feed entry whose link is in the
\* run's snapshot.
C9_KnownUrlSkipped ==
  \A j \in 1..Len(items) :
    items[j].link \in existing_urls =>
      \A p \in Pos : calls[p].link # items[j].link

\* C9, witness: a completed run whose feed listed a known entry and a new
\* one, the new one processed
C9_Witness ==
  /\ pc = "done"
  /\ \E j \in 1..Len(items) : items[j].link \in existing_urls
  /\ ItemPos # {}

(* -------------------------------- C10 --------------------------------- *)

\* C10: the call that precedes the first call of entry k+1 is the pause
\* that follows entry k, and a completed run ends with the pause of its last
\* entry.
C10_PauseAfterEveryItem ==
  /\ \A p \in ItemPos :
       p < Len(calls) /\ calls[p + 1].idx = calls[p].idx + 1 =>
         calls[p].op = "sleep"
  /\ pc = "done" /\ ItemPos # {} => calls[Len(calls)].op = "sleep"

(* -------------------------------- C11 --------------------------------- *)

\* the entries the item calls of the log were made for, in log order
RECURSIVE IdxTrace(_)
IdxTrace(p) ==
  IF p = 0 THEN <<>>
  ELSE IF calls[p].idx > 0 /\ (p = 1 \/ calls[p - 1].idx # calls[p].idx)
       THEN Append(IdxTrace(p - 1), calls[p].idx)
       ELSE IdxTrace(p - 1)

\* C11: a run that has fetched its feed (after authentication and snapshot
\* succeeded) eventually completes, whatever its entries do; at completion
\* the entries attempted are those of the filtered sequence, each once, in
\* order, each for the link of its entry.
C11_RunReachesDone ==
  /\ (pc = "filter") ~> (pc = "done")
  /\ [](pc = "done" =>
          /\ idx = Len(new_items)
          /\ IdxTrace(Len(calls)) = [k \in 1..Len(new_items) |-> k]
          /\ \A p \in ItemPos : calls[p].link = new_items[calls[p].idx].link)

\* C11, witness: a completed run of two entries of which both failed
C11_Witness ==
  /\ pc = "done"
  /\ Len(new_items) = 2
  /\ \A k \in 1..2 : \E p \in Pos : calls[p].idx = k /\ ~calls[p].ok

(* -------------------------------- C12 --------------------------------- *)

\* the records this run has added to the store
RunRecords == { store[j] : j \in (startLen + 1)..Len(store) }

\* the links the sequence of entries lists
LinksOf(its) == { its[j].link : j \in 1..Len(its) }

\* C12: when create_rss_record has failed for an entry, the run has added no
\* record with that entry's url to the store; and the next run, once it has
\* filtered a feed that still lists the entry, has it in its filtered
\* sequence.
C12_FailedCreateIsRetried ==
  /\ \A p \in Pos :
       calls[p].op = "create" /\ ~calls[p].ok =>
         \A r \in RunRecords : r.url # calls[p].link
  /\ (Filtered /\ prev.ran) =>
       \A l \in prev.createFailed : l \in LinksOf(items) => l \in LinksOf(new_items)

(* -------------------------------- C13 --------------------------------- *)

\* C13: of two calls made for the same entry of the filtered sequence, the
\* earlier one succeeded and the later one is a different operation: no
\* operation is invoked twice for an entry, and nothing is called for an
\* entry after one of its calls failed.
C13_NoRetryWithinRun ==
  \A p, q \in ItemPos :
    (p < q /\ calls[p].idx = calls[q].idx) =>
      /\ calls[p].ok
      /\ calls[p].op # calls[q].op

\* C13, witness: a completed run in which the extraction of the first entry
\* failed, was its only call, and the second entry went through all its steps
C13_Witness ==
  /\ pc = "done"
  /\ \E p \in Pos :
       /\ IsCall(p, "scrape", 1) /\ ~calls[p].ok
       /\ \A q \in Pos : calls[q].idx = 1 => q = p
  /\ \E q \in Pos : IsCall(q, "push", 2)

(* -------------------------------- C14 --------------------------------- *)

\* a required setting is absent: unset, or set to the empty string
Absent(n) == env[n] = None \/ env[n] = <<>>

AbsentNames == { n \in RequiredNames : Absent(n) }

\* C14: once the module has validated its environment, the process has
\* failed if and only if some required setting is absent; the diagnostic
\* then names each absent setting once and no other, and no run starts, no
\* client is opened and no call is made.
C14_StartupFailsIffSettingAbsent ==
  pc # "import" =>
    /\ (pc = "config_error") <=> (AbsentNames # {})
    /\ { missing_vars[k] : k \in DOMAIN missing_vars } = AbsentNames
    /\ Len(missing_vars) = Cardinality(AbsentNames)
    /\ pc = "config_error" =>
         runs = 0 /\ ~clientOpen /\ calls = <<>> /\ store = <<>> /\ token = None

\* C14, witness: a start that failed with two of the seven settings absent,
\* one unset and one empty, both named
C14_Witness ==
  /\ pc = "config_error"
  /\ env["PB_EMAIL"] = None
  /\ env["PUSHBULLET_TOKEN"] = <<>>
  /\ Cardinality(AbsentNames) = 2
  /\ missing_vars = <<"PB_EMAIL", "PUSHBULLET_TOKEN">>

(* -------------------------------- C15 --------------------------------- *)

\* the calls that go through the shared httpx client
SessionOps == {"auth", "fetch_existing", "scrape", "create", "push"}

\* the positions of main() between the opening of the client and its end
InRun ==
  pc \in {"auth", "fetch_existing", "fetch_rss", "filter", "loop",
          "create_minimal", "scrape", "summarize", "create_full", "notify",
          "sleep"}

\* C15: the client is opened only by the start of a run, stays open while
\* the run is under way and is closed in both of its terminal states,
\* completed and aborted; every request on the client is made while it is
\* open.
C15_SessionScopedToRun ==
  /\ [](InRun => clientOpen)
  /\ [](pc \in {"done", "aborted"} => ~clientOpen)
  /\ [][(~clientOpen /\ clientOpen') => (runs' = runs + 1 /\ pc' = "auth")]_vars
  /\ [][(/\ Len(calls') = Len(calls) + 1
         /\ calls'[Len(calls')].op \in SessionOps) => clientOpen]_vars

\* C15, witness: a second run completed with its client closed, after a
\* first run that was aborted
C15_Witness ==
  /\ pc = "done"
  /\ ~clientOpen
  /\ prev.ran
  /\ prev.outcome = "aborted"
  /\ \E p \in Pos : calls[p].op = "push"

(* -------------------------------- C16 --------------------------------- *)

\* the run is complete and none of its calls failed
AllCallsSucceeded == pc = "done" /\ \A p \in Pos : calls[p].ok

\* no extraction and no summarization of the run returned the empty text
AllTextsNonEmpty ==
  \A p \in Pos : calls[p].op \in {"scrape", "summarize"} => calls[p].ret # <<>>

\* one record per entry of the filtered sequence, minimal for the entries
\* with the marker and with summary and markdown populated for the others;
\* one notification per entry without the marker, none for the others
OneRecordPerEntry ==
  /\ CreatedInRun = Len(new_items)
  /\ \A k \in 1..Len(new_items) :
       /\ Cardinality({ p \in Pos : calls[p].idx = k /\ RecordInStore(p) }) = 1
       /\ \A p \in Pos :
            calls[p].idx = k /\ calls[p].op = "create" =>
              IF HasMarkerAnyCase(new_items[k].link)
              THEN DOMAIN calls[p].data = {"url", "feed_url", "published_at"}
              ELSE /\ NonEmptyField(calls[p].data, "summary")
                   /\ NonEmptyField(calls[p].data, "markdown")
       /\ Cardinality({ p \in Pos : IsCall(p, "push", k) })
            = IF HasMarkerAnyCase(new_items[k].link) THEN 0 ELSE 1

\* C16, as stated: in a completed run whose calls all succeeded, every entry
\* has exactly one record, minimal or full as its link has the marker or
\* not, and the entries without the marker have exactly one notification.
C16_AllSucceedOneRecordEach == AllCallsSucceeded => OneRecordPerEntry

\* C16, amended: the same, for the runs whose calls all succeeded and whose
\* extractions and summarizations all returned a non-empty text.
C16_AllSucceedNonEmptyOneRecordEach ==
  (AllCallsSucceeded /\ AllTextsNonEmpty) => OneRecordPerEntry

\* C16, witness: the scenario of two new entries, one with the marker, every
\* call succeeding with a non-empty text
C16_Witness ==
  /\ AllCallsSucceeded
  /\ AllTextsNonEmpty
  /\ Len(new_items) = 2
  /\ HasMarkerAnyCase(new_items[1].link)
  /\ ~HasMarkerAnyCase(new_items[2].link)
  /\ OneRecordPerEntry

(* -------------------------------- C17 --------------------------------- *)

\* C17: every step leaves the records of the store in place and unchanged;
\* a step can only append one record, the one a creation call posted.
C17_StoreOnlyGrows ==
  [][/\ Len(store') >= Len(store)
     /\ SubSeq(store', 1, Len(store)) = store
     /\ Len(store') > Len(store) =>
          /\ Len(store') = Len(store) + 1
          /\ calls'[Len(calls')].op = "create"
          /\ store'[Len(store')] = calls'[Len(calls')].data]_vars

\* C17, witness: a second run that added a record, after a failed step and a
\* failed notification, to a store that kept the record of the first run
C17_Witness ==
  /\ prev.ran
  /\ startLen >= 1
  /\ CreatedInRun >= 1
  /\ \E p \in Pos : calls[p].op = "push" /\ ~calls[p].ok
  /\ \E p \in Pos : calls[p].op = "scrape" /\ ~calls[p].ok
  /\ \E j \in 1..startLen : store[j].url = store[Len(store)].url

(* -------------------------------- C18 --------------------------------- *)

\* the phase of the run a position of main() belongs to
Phase(c) ==
  CASE c = "auth" -> 1
    [] c = "fetch_existing" -> 2
    [] c = "fetch_rss" -> 3
    [] c = "filter" -> 4
    [] c \in {"loop", "create_minimal", "scrape", "summarize", "create_full",
              "notify", "sleep"} -> 5
    [] c = "done" -> 6
    [] OTHER -> 0

\* C18: a run goes through its phases in order, one at a time, and leaves
\* them only by aborting from one of the first three; it authenticates once
\* and takes the snapshot once, as its first two calls; from then on the
\* snapshot does not change, nor does the filtered sequence once processing
\* has begun, whatever records the run creates.
C18_PhasesInOrder ==
  /\ [][pc' # pc =>
          \/ pc \in {"start", "done", "aborted"} /\ pc' = "auth"
          \/ Phase(pc) \in 1..3 /\ pc' = "aborted"
          \/ Phase(pc) \in 1..5 /\ Phase(pc') = Phase(pc) + 1
          \/ Phase(pc) = 5 /\ Phase(pc') = 5]_vars
  /\ [](\A p \in Pos :
          /\ calls[p].op = "auth" <=> p = 1
          /\ calls[p].op = "fetch_existing" <=> p = 2
          /\ calls[p].op = "fetch_rss" <=> p = 3)
  /\ [][(Phase(pc) >= 3 /\ pc' # "auth") => existing_urls' = existing_urls]_vars
  /\ [][(Phase(pc) >= 5 /\ pc' # "auth") => new_items' = new_items]_vars
  /\ [](Phase(pc) >= 5 => new_items = FilterNew(items, existing_urls))

\* C18, witness: a completed run whose feed listed the same link twice: the
\* record created for the first entry did not keep the second from being
\* processed
C18_Witness ==
  /\ pc = "done"
  /\ Len(new_items) = 2
  /\ new_items[1].link = new_items[2].link
  /\ \E p, q \in Pos :
       /\ p < q
       /\ calls[p].idx = 1 /\ RecordInStore(p)
       /\ calls[q].idx = 2

(* -------------------------------- C19 --------------------------------- *)

\* the call at position p was made for entry k after a successful call op
\* for the same entry
After(p, op) ==
  \E q \in 1..(p - 1) : IsCall(q, op, calls[p].idx) /\ calls[q].ok

\* the notifications the run has sent
PushesSent == { p \in Pos : calls[p].op = "push" /\ calls[p].ok }

\* the records the run has created for entries without the marker
FullRecords ==
  { p \in Pos : /\ RecordInStore(p)
                /\ ~HasMarkerAnyCase(calls[p].link) }

FieldText(r, f) == IF f \in DOMAIN r THEN r[f] ELSE <<>>

\* C20: the record posted for an entry without the marker has the link and
\* the date of that entry; its markdown is the text the extraction returned
\* for that link, its summary the text the summarization returned for that
\* markdown (an empty text leaving the field out); the body of the entry's
\* notification is that summary.
C20_NoDataMixedBetweenItems ==
  \A p \in Pos :
    /\ (calls[p].op = "create" /\ ~HasMarkerAnyCase(calls[p].link)) =>
         /\ calls[p].link = new_items[calls[p].idx].link
         /\ calls[p].data.url = calls[p].link
         /\ calls[p].data.feed_url = calls[p].link
         /\ calls[p].data.published_at = new_items[calls[p].idx].pubDate
         /\ \E q, r \in 1..(p - 1) :
              /\ IsCall(q, "scrape", calls[p].idx)
              /\ calls[q].link = calls[p].link
              /\ FieldText(calls[p].data, "markdown") = calls[q].ret
              /\ IsCall(r, "summarize", calls[p].idx)
              /\ calls[r].arg = calls[q].ret
              /\ FieldText(calls[p].data, "summary") = calls[r].ret
    /\ calls[p].op = "push" =>
         \E q \in 1..(p - 1) :
           /\ IsCall(q, "create", calls[p].idx)
           /\ calls[p].body = FieldText(calls[q].data, "summary")

\* C20, witness: a completed run of two entries with different links, each
\* recorded with its own markdown and summary and notified
C20_Witness ==
  /\ pc = "done"
  /\ Len(new_items) = 2
  /\ new_items[1].link # new_items[2].link
  /\ \A k \in 1..2 :
       \E p, q \in Pos :
         /\ IsCall(p, "create", k) /\ RecordInStore(p)
         /\ NonEmptyField(calls[p].data, "markdown")
         /\ NonEmptyField(calls[p].data, "summary")
         /\ calls[p].data.markdown = Page(new_items[k].link)
         /\ IsCall(q, "push", k) /\ calls[q].ok
         /\ calls[q].body = calls[p].data.summary

====
